---- MODULE Spec2Model ----
(***************************************************************************)
(* Model of app.py: a Streamlit page that turns text into an MP3 with      *)
(* Edge-TTS.  Three specifications share the module:                       *)
(*   Spec       - one browser session: script runs, the Generate handler   *)
(*                and the session's busy flag;                             *)
(*   SpecVoices - the voice pipeline of one script run: filter_voice_list, *)
(*                nice_label / voice_map, default label selection;         *)
(*   SpecRate   - pct_to_edge_rate applied to a slider value.              *)
(* Python strings are modelled as sequences of one-character strings so    *)
(* that lower(), split(), endswith(), slicing, strip() and "in" are        *)
(* computed character by character.                                        *)
(***************************************************************************)
EXTENDS Integers, Sequences, FiniteSets, TLC

VARIABLES
    \* ---- session (Spec) ----
    pc,             \* position of the session's script thread
    session_state,  \* st.session_state: a mapping, empty until line 204
    request,        \* rerun request queued by the front end: none/rerun/click
    button,         \* the Generate button as last rendered: absent/enabled/disabled
    trigger,        \* the rerun request of the current run carries a click
    cache,          \* st.cache_data of get_voices_cached: {} or {catalog}
    selectors,      \* the Language / Preferred voice select boxes are on the page
    generate,       \* value st.button returned in the current run
    text,           \* text_area widget value held by the front end
    run_text,       \* the script-local `text` of the current run
    shown,          \* elements the current run has displayed
    have_audio,     \* the current run has read audio_bytes
    audio_len,      \* len(audio_bytes) of the current run
    run_calls,      \* outbound synthesis calls made by the current run
    clicks,         \* Generate clicks made by the user so far
    completed,      \* generate handlers that reached their finally block
    \* ---- voice pipeline (SpecVoices) ----
    voices,         \* catalog returned by get_voices_cached()
    prefer_lang,    \* None or a locale
    prefer_female,  \* BOOLEAN
    filtered,       \* result of filter_voice_list
    voice_map,      \* dict label -> voice, as a sequence of <<label, voice>>
    default_label,  \* result of the default selection
    vstage,         \* progress through lines 146-179
    \* ---- rate mapper (SpecRate) ----
    rate_slider,
    rate_str,
    rstage

sessionVars == <<pc, session_state, request, button, trigger, cache, selectors,
                 generate,
                 text, run_text,
                 shown, have_audio, audio_len, run_calls, clicks, completed>>
voiceVars   == <<voices, prefer_lang, prefer_female, filtered, voice_map,
                 default_label, vstage>>
rateVars    == <<rate_slider, rate_str, rstage>>
vars        == <<sessionVars, voiceVars, rateVars>>

-----------------------------------------------------------------------------
\* Bounds of the model
MaxTextLen   == 2     \* longest text typed into the text area
MaxClicks    == 2     \* Generate clicks the user makes
MaxAudioOver == 1     \* audio sizes reach MinAudioBytes + MaxAudioOver
MaxCatalog   == 3     \* longest voice catalog
RateSlack    == 10    \* slider inputs range RateSlack beyond the slider's ends

\* Program constants
MinAudioBytes == 2000
SliderMin     == 100
SliderMax     == 250
RateCentre    == 175
RateHalfWidth == 75
RateSpan      == 50
NeuralLen     == 6

-----------------------------------------------------------------------------
\* Python str helpers, on sequences of characters

None == <<"<", "N", "o", "n", "e", ">">>

UpperChars == <<"A","B","C","D","E","F","G","H","I","J","K","L","M",
                "N","O","P","Q","R","S","T","U","V","W","X","Y","Z">>
LowerChars == <<"a","b","c","d","e","f","g","h","i","j","k","l","m",
                "n","o","p","q","r","s","t","u","v","w","x","y","z">>

\* str.lower() on one character
LowerChar(c) ==
    IF \E i \in 1..Len(UpperChars) : UpperChars[i] = c
    THEN LowerChars[CHOOSE i \in 1..Len(UpperChars) : UpperChars[i] = c]
    ELSE c

\* str.lower()
Lower(s) == [i \in 1..Len(s) |-> LowerChar(s[i])]

\* s.endswith(suffix)
EndsWith(s, suffix) ==
    /\ Len(s) >= Len(suffix)
    /\ SubSeq(s, Len(s) - Len(suffix) + 1, Len(s)) = suffix

\* s.startswith(prefix)
StartsWith(s, prefix) ==
    /\ Len(s) >= Len(prefix)
    /\ SubSeq(s, 1, Len(prefix)) = prefix

\* sub in s : scan the start positions left to right
RECURSIVE StrIn(_, _)
StrIn(sub, s) ==
    IF Len(s) < Len(sub) THEN FALSE
    ELSE IF StartsWith(s, sub) THEN TRUE
    ELSE StrIn(sub, Tail(s))

\* s.split("-")[-1] : the characters after the last "-" (all of s without one)
RECURSIVE LastSegment(_)
LastSegment(s) ==
    IF s = <<>> THEN <<>>
    ELSE IF s[Len(s)] = "-" THEN <<>>
    ELSE LastSegment(SubSeq(s, 1, Len(s) - 1)) \o <<s[Len(s)]>>

\* The characters str.strip() removes (str.isspace): U+0009..U+000D,
\* U+001C..U+001F, U+0020, U+0085, U+00A0, U+1680, U+2000..U+200A, U+2028,
\* U+2029, U+202F, U+205F, U+3000.  A character with no escape in a string
\* here is written as a token naming its code point.
NBSP == "U+00A0"
Whitespace ==
    {"\t", "\n", "U+000B", "\f", "\r", "U+001C", "U+001D", "U+001E", "U+001F",
     " ", "U+0085", NBSP, "U+1680", "U+2000", "U+2001", "U+2002", "U+2003",
     "U+2004", "U+2005", "U+2006", "U+2007", "U+2008", "U+2009", "U+200A",
     "U+2028", "U+2029", "U+202F", "U+205F", "U+3000"}

RECURSIVE LStrip(_)
LStrip(s) ==
    IF s # <<>> /\ Head(s) \in Whitespace THEN LStrip(Tail(s)) ELSE s

RECURSIVE RStrip(_)
RStrip(s) ==
    IF s # <<>> /\ s[Len(s)] \in Whitespace
    THEN RStrip(SubSeq(s, 1, Len(s) - 1)) ELSE s

\* str.strip()
Strip(s) == RStrip(LStrip(s))

-----------------------------------------------------------------------------
\* pct_to_edge_rate (lines 90-94)

\* round(n / d) for d > 0, Python 3 rounding (ties to even)
RoundHalfEven(n, d) ==
    LET q == n \div d
        r == n % d
    IN  IF 2 * r < d THEN q
        ELSE IF 2 * r > d THEN q + 1
        ELSE IF q % 2 = 0 THEN q ELSE q + 1

\* int(n / d): truncation towards zero
TruncDiv(n, d) == IF n >= 0 THEN n \div d ELSE -((-n) \div d)

Max(a, b) == IF a >= b THEN a ELSE b
Min(a, b) == IF a <= b THEN a ELSE b

DigitChars == <<"0","1","2","3","4","5","6","7","8","9">>

\* decimal digits of n >= 0
RECURSIVE Digits(_)
Digits(n) ==
    IF n < 10 THEN <<DigitChars[n + 1]>>
    ELSE Digits(n \div 10) \o <<DigitChars[(n % 10) + 1]>>

\* f"{val:+d}%"
FormatSignedPct(val) ==
    (IF val >= 0 THEN <<"+">> \o Digits(val) ELSE <<"-">> \o Digits(-val))
        \o <<"%">>

\* int(...) in place of int(round(...))
pct_to_edge_rate_trunc(pct) ==
    LET val == TruncDiv((pct - RateCentre) * RateSpan, RateHalfWidth)
    IN  FormatSignedPct(Max(-RateSpan, Min(RateSpan, val)))

pct_to_edge_rate(pct) ==
    LET val == RoundHalfEven((pct - RateCentre) * RateSpan, RateHalfWidth)
    IN  FormatSignedPct(Max(-RateSpan, Min(RateSpan, val)))

-----------------------------------------------------------------------------
\* Voice catalog: filter_voice_list, nice_label, voice_map, default label

Str_enUS    == <<"e","n","-","U","S">>
Str_frFR    == <<"f","r","-","F","R">>
Str_enGB    == <<"e","n","-","G","B">>
Str_enAU    == <<"e","n","-","A","U">>
Str_deDE    == <<"d","e","-","D","E">>
Str_Female  == <<"F","e","m","a","l","e">>
Str_Male    == <<"M","a","l","e">>
Str_female  == <<"f","e","m","a","l","e">>
Str_FEMALE  == <<"F","E","M","A","L","E">>
Str_neural  == <<"n","e","u","r","a","l">>
Str_Neural  == <<"N","e","u","r","a","l">>
Str_jenny   == <<"j","e","n","n","y">>
Str_aria    == <<"a","r","i","a">>
Str_ParenNeural == <<" ","(","N","e","u","r","a","l",")">>
\* " \u2014 " : the em dash (U+2014) is one character, written as a token
EmDash      == "EMDASH"
Str_Sep     == <<" ", EmDash, " ">>

Voice(sn, locale, gender) == [ShortName |-> sn, Locale |-> locale, Gender |-> gender]

V_Jenny  == Voice(Str_enUS \o <<"-","J","e","n","n","y">> \o Str_Neural, Str_enUS, Str_Female)
V_Aria   == Voice(Str_enUS \o <<"-","A","r","i","a">> \o Str_Neural, Str_enUS, Str_Female)
V_Guy    == Voice(Str_enUS \o <<"-","G","u","y">> \o Str_Neural, Str_enUS, Str_Male)
V_Denise == Voice(Str_frFR \o <<"-","D","e","n","i","s","e">> \o Str_Neural, Str_frFR, Str_Female)
V_Anna   == Voice(Str_enUS \o <<"-","A","n","n","a">> \o Str_neural, Str_enUS, Str_female)
V_Maria  == Voice(Str_enGB \o <<"-","M","a","r","i","a","N","E","U","R","A","L">>, Str_enGB, Str_FEMALE)
V_JENNY  == Voice(Str_enAU \o <<"-","J","E","N","N","Y">>, Str_enAU, Str_Female)
V_Bob    == Voice(<<"B","o","b">>, Str_enUS, Str_Male)

VoicePool == {V_Jenny, V_Aria, V_Guy, V_Denise, V_Anna, V_Maria, V_JENNY, V_Bob}
LangPool  == {None, Str_enUS, Str_frFR, Str_deDE}

\* Python truthiness of prefer_lang: None and "" are falsy
Truthy(s) == s # None /\ s # <<>>

\* the loop of lines 108-116, with the gender compared as written
RECURSIVE PrimaryPass_cs(_, _, _)
PrimaryPass_cs(vs, lang, fem) ==
    IF vs = <<>> THEN <<>>
    ELSE LET v == Head(vs)
         IN  IF Truthy(lang) /\ v.Locale # lang THEN PrimaryPass_cs(Tail(vs), lang, fem)
             ELSE IF fem /\ v.Gender # Str_Female THEN PrimaryPass_cs(Tail(vs), lang, fem)
             ELSE <<v>> \o PrimaryPass_cs(Tail(vs), lang, fem)

\* the loop of lines 108-116
RECURSIVE PrimaryPass(_, _, _)
PrimaryPass(vs, lang, fem) ==
    IF vs = <<>> THEN <<>>
    ELSE LET v      == Head(vs)
             locale == v.Locale
             gender == Lower(v.Gender)
         IN  IF Truthy(lang) /\ locale # lang THEN PrimaryPass(Tail(vs), lang, fem)
             ELSE IF fem /\ gender # Str_female THEN PrimaryPass(Tail(vs), lang, fem)
             ELSE <<v>> \o PrimaryPass(Tail(vs), lang, fem)

\* [v for v in voices if v.get("Locale") == prefer_lang]
LocaleOnly(vs, lang) == SelectSeq(vs, LAMBDA v : v.Locale = lang)

\* filter_voice_list without the last fallback
filter_voice_list_no_fallback(vs, lang, fem) ==
    LET out1 == PrimaryPass(vs, lang, fem)
    IN  IF out1 = <<>>
        THEN (IF Truthy(lang) THEN LocaleOnly(vs, lang) ELSE vs)
        ELSE out1

filter_voice_list(vs, lang, fem) ==
    LET out1 == PrimaryPass(vs, lang, fem)
        out2 == IF out1 = <<>>
                THEN (IF Truthy(lang) THEN LocaleOnly(vs, lang) ELSE vs)
                ELSE out1
        out3 == IF out2 = <<>> THEN vs ELSE out2
    IN  out3

\* nice_label with the suffix test made on name_part itself
nice_label_cs(v) ==
    LET sn        == v.ShortName
        name_part == IF StrIn(<<"-">>, sn) THEN LastSegment(sn) ELSE sn
        display   == IF EndsWith(name_part, Str_Neural)
                     THEN SubSeq(name_part, 1, Len(name_part) - NeuralLen) \o Str_ParenNeural
                     ELSE name_part
    IN  display \o Str_Sep \o v.Locale \o Str_Sep \o v.Gender

nice_label(v) ==
    LET sn        == v.ShortName
        locale    == v.Locale
        gender    == v.Gender
        name_part == IF StrIn(<<"-">>, sn) THEN LastSegment(sn) ELSE sn
        display   == IF EndsWith(Lower(name_part), Str_neural)
                     THEN SubSeq(name_part, 1, Len(name_part) - NeuralLen) \o Str_ParenNeural
                     ELSE name_part
    IN  display \o Str_Sep \o locale \o Str_Sep \o gender

\* d[k] = v on an insertion-ordered dict
DictPut(d, k, v) ==
    IF \E i \in 1..Len(d) : d[i][1] = k
    THEN [i \in 1..Len(d) |-> IF d[i][1] = k THEN <<k, v>> ELSE d[i]]
    ELSE Append(d, <<k, v>>)

\* {nice_label(v): v for v in filtered}
RECURSIVE BuildVoiceMap(_, _)
BuildVoiceMap(vs, acc) ==
    IF vs = <<>> THEN acc
    ELSE BuildVoiceMap(Tail(vs), DictPut(acc, nice_label(Head(vs)), Head(vs)))

\* voice_map.keys()
Keys(d) == [i \in 1..Len(d) |-> d[i][1]]

\* for key in keys: if sub in key.lower(): return key
RECURSIVE FirstContaining(_, _)
FirstContaining(keys, sub) ==
    IF keys = <<>> THEN None
    ELSE IF StrIn(sub, Lower(Head(keys))) THEN Head(keys)
    ELSE FirstContaining(Tail(keys), sub)

IndexError == <<"IndexError">>

\* the selection with the two searches swapped
select_default_label_aria_first(keys) ==
    LET a == FirstContaining(keys, Str_aria)
        j == FirstContaining(keys, Str_jenny)
    IN  IF a # None THEN a
        ELSE IF j # None THEN j
        ELSE IF keys = <<>> THEN IndexError ELSE keys[1]

\* lines 168-179
select_default_label(keys) ==
    LET j == FirstContaining(keys, Str_jenny)
        a == FirstContaining(keys, Str_aria)
    IN  IF j # None THEN j
        ELSE IF a # None THEN a
        ELSE IF keys = <<>> THEN IndexError ELSE keys[1]

-----------------------------------------------------------------------------
\* Values the variables of a specification hold while another one runs

NoSessionState == [k \in {} |-> FALSE]

SessionIdle ==
    /\ pc = "idle" /\ session_state = NoSessionState /\ request = "none"
    /\ button = "absent" /\ trigger = FALSE /\ cache = {} /\ selectors = FALSE
    /\ generate = FALSE /\ text = <<>> /\ run_text = <<>>
    /\ shown = {} /\ have_audio = FALSE /\ audio_len = 0 /\ run_calls = 0
    /\ clicks = 0 /\ completed = 0

VoicesIdle ==
    /\ voices = <<>> /\ prefer_lang = None /\ prefer_female = FALSE
    /\ filtered = <<>> /\ voice_map = <<>> /\ default_label = None
    /\ vstage = "off"

RateIdle ==
    /\ rate_slider = RateCentre /\ rate_str = <<>> /\ rstage = "off"

-----------------------------------------------------------------------------
\* SpecRate: pct_to_edge_rate applied to a slider value (line 223)

RateInputs == (SliderMin - RateSlack)..(SliderMax + RateSlack)

InitRate ==
    /\ SessionIdle /\ VoicesIdle
    /\ rate_slider \in RateInputs
    /\ rate_str = <<>>
    /\ rstage = "input"

MapRate ==
    /\ rstage = "input"
    /\ rate_str' = pct_to_edge_rate(rate_slider)
    /\ rstage' = "mapped"
    /\ UNCHANGED <<rate_slider, sessionVars, voiceVars>>

NextRate == MapRate

SpecRate == InitRate /\ [][NextRate]_vars

-----------------------------------------------------------------------------
\* SpecVoices: lines 146-179 of one script run

Catalogs ==
    UNION { { c \in [1..n -> VoicePool] : \A i, j \in 1..n : i # j => c[i] # c[j] }
            : n \in 0..MaxCatalog }

InitVoices ==
    /\ SessionIdle /\ RateIdle
    /\ voices \in Catalogs
    /\ prefer_lang \in LangPool
    /\ prefer_female \in BOOLEAN
    /\ filtered = <<>> /\ voice_map = <<>> /\ default_label = None
    /\ vstage = "start"

\* filtered = filter_voice_list(voices, ...)                    (lines 147-151)
FilterStep ==
    /\ vstage = "start"
    /\ filtered' = filter_voice_list(voices, prefer_lang, prefer_female)
    /\ vstage' = "filtered"
    /\ UNCHANGED <<voices, prefer_lang, prefer_female, voice_map, default_label,
                   sessionVars, rateVars>>

\* voice_map = {nice_label(v): v for v in filtered}              (line 165)
MapStep ==
    /\ vstage = "filtered"
    /\ voice_map' = BuildVoiceMap(filtered, <<>>)
    /\ vstage' = "mapped"
    /\ UNCHANGED <<voices, prefer_lang, prefer_female, filtered, default_label,
                   sessionVars, rateVars>>

\* default_label                                                (lines 168-179)
DefaultStep ==
    /\ vstage = "mapped"
    /\ default_label' = select_default_label(Keys(voice_map))
    /\ vstage' = "selected"
    /\ UNCHANGED <<voices, prefer_lang, prefer_female, filtered, voice_map,
                   sessionVars, rateVars>>

NextVoices == FilterStep \/ MapStep \/ DefaultStep

SpecVoices == InitVoices /\ [][NextVoices]_vars

-----------------------------------------------------------------------------
\* Spec: one browser session.  Streamlit runs the script top to bottom on a
\* rerun request; st.session_state lives across the runs of the session; the
\* front end keeps the widgets of the last render and queues what the user
\* does while a run is in progress.

TextChars == {"a", " ", "\r"}
Texts == UNION { [1..n -> TextChars] : n \in 0..MaxTextLen }

\* what edge_tts.list_voices() can return to the session
SessionCatalogs == {<<>>, <<V_Guy, V_Aria>>}

AudioSizes == {0} \cup ((MinAudioBytes - 2)..(MinAudioBytes + MaxAudioOver))

\* st.session_state.busy
Busy == "busy" \in DOMAIN session_state /\ session_state["busy"]

\* a first run that stores True
InitBusy_true(ss) ==
    IF "busy" \in DOMAIN ss THEN ss ELSE [k \in {"busy"} |-> TRUE]

\* if "busy" not in st.session_state: st.session_state.busy = False
InitBusy(ss) ==
    IF "busy" \in DOMAIN ss THEN ss ELSE [k \in {"busy"} |-> FALSE]

\* st.session_state.busy = True
SetBusy(ss) == [ss EXCEPT !["busy"] = TRUE]

\* a handler without the try/finally around st.stop()
FinallyClear_skipped(ss) == ss

\* finally: st.session_state.busy = False
FinallyClear(ss) == [ss EXCEPT !["busy"] = FALSE]

\* `not text` in place of `not text.strip()`
IsBlank_nostrip(t) == t = <<>>

\* not text.strip()
IsBlank(t) == Strip(t) = <<>>

\* the size test off by one
TooShort_off(n) == n + 1 < MinAudioBytes

\* len(audio_bytes) < 2000
TooShort(n) == n < MinAudioBytes

Init ==
    /\ VoicesIdle /\ RateIdle
    /\ pc = "idle"
    /\ session_state = NoSessionState
    /\ request = "rerun"              \* the browser connects: first run
    /\ button = "absent"
    /\ trigger = FALSE
    /\ cache = {}
    /\ selectors = FALSE
    /\ generate = FALSE
    /\ text = <<"a">>                 \* the text area's non-blank default
    /\ run_text = <<>>
    /\ shown = {}
    /\ have_audio = FALSE
    /\ audio_len = 0
    /\ run_calls = 0
    /\ clicks = 0
    /\ completed = 0

\* The user clicks Generate: possible when the button on the page is enabled.
Click ==
    /\ button = "enabled"
    /\ clicks < MaxClicks
    /\ clicks' = clicks + 1
    /\ request' = "click"
    /\ UNCHANGED <<pc, session_state, button, trigger, cache, selectors, generate, text,
                   run_text, shown, have_audio, audio_len, run_calls, completed,
                   voiceVars, rateVars>>

\* The user edits the text area (on the page once line 187 has rendered it,
\* which the same runs reach that render the button).
EditText(t) ==
    /\ button # "absent"
    /\ t # text
    /\ text' = t
    /\ request' = IF request = "click" THEN "click" ELSE "rerun"
    /\ UNCHANGED <<pc, session_state, button, trigger, cache, selectors, generate,
                   run_text, shown, have_audio, audio_len, run_calls, clicks,
                   completed, voiceVars, rateVars>>

\* The user changes Language or Preferred voice (lines 142-144).
ChangeSelection ==
    /\ selectors
    /\ request = "none"
    /\ request' = "rerun"
    /\ UNCHANGED <<pc, session_state, button, trigger, cache, selectors, generate, text,
                   run_text, shown, have_audio, audio_len, run_calls, clicks,
                   completed, voiceVars, rateVars>>

\* A script run starts on the queued request, with the widget values of that
\* moment, and executes lines 138-145; it then waits in get_voices_cached()
\* (line 146), which goes to the network when the cache has no value.
StartRun ==
    /\ pc = "idle"
    /\ request # "none"
    /\ run_text' = text
    /\ trigger' = (request = "click")
    /\ request' = "none"
    /\ selectors' = TRUE
    /\ generate' = FALSE
    /\ shown' = {}
    /\ have_audio' = FALSE
    /\ audio_len' = 0
    /\ run_calls' = 0
    /\ pc' = "fetch"
    /\ UNCHANGED <<session_state, button, cache, text, clicks, completed,
                   voiceVars, rateVars>>

\* The catalog as lines 147-179 see it, with the select boxes' values: the
\* run fails at line 179 when voice_map has no key.
PageFails(c) ==
    select_default_label(Keys(BuildVoiceMap(
        filter_voice_list(c, Str_enUS, TRUE), <<>>))) = IndexError

\* The cached value is older than ttl (line 102) and is dropped.
CacheExpires ==
    /\ cache # {}
    /\ cache' = {}
    /\ UNCHANGED <<pc, session_state, request, button, trigger, selectors,
                   generate, text, run_text, shown, have_audio, audio_len,
                   run_calls, clicks, completed, voiceVars, rateVars>>

\* Cache miss and edge_tts.list_voices() raises: the exception ends the run
\* at line 146, before busy is initialised and before the button is
\* rendered; the elements of the previous run that this run did not render
\* are removed.  Nothing is cached.
CatalogFetchFails ==
    /\ pc = "fetch"
    /\ cache = {}
    /\ shown' = shown \cup {"exception"}
    /\ button' = "absent"
    /\ pc' = "idle"
    /\ UNCHANGED <<session_state, request, trigger, cache, selectors, generate,
                   text, run_text, have_audio, audio_len, run_calls, clicks,
                   completed, voiceVars, rateVars>>

\* Cache miss and edge_tts.list_voices() returns c, which is cached.
CatalogFetched(c) ==
    /\ pc = "fetch"
    /\ cache = {}
    /\ cache' = {c}
    /\ UNCHANGED <<pc, session_state, request, button, trigger, selectors,
                   generate, text, run_text, shown, have_audio, audio_len,
                   run_calls, clicks, completed, voiceVars, rateVars>>

\* The catalog is empty: voice_map is empty and list(voice_map.keys())[0]
\* raises IndexError at line 179, again before lines 203-211.
EmptyCatalogFails ==
    /\ pc = "fetch"
    /\ \E c \in cache : PageFails(c)
    /\ shown' = shown \cup {"IndexError"}
    /\ button' = "absent"
    /\ pc' = "idle"
    /\ UNCHANGED <<session_state, request, trigger, cache, selectors, generate,
                   text, run_text, have_audio, audio_len, run_calls, clicks,
                   completed, voiceVars, rateVars>>

\* The catalog is there and not empty: lines 146-211 run, busy is
\* initialised and the Generate button is rendered.
Render ==
    /\ pc = "fetch"
    /\ \E c \in cache : ~PageFails(c)
    /\ session_state' = InitBusy(session_state)
    /\ button' = IF session_state'["busy"] THEN "disabled" ELSE "enabled"
    /\ generate' = trigger
    /\ pc' = "handler"
    /\ UNCHANGED <<request, trigger, cache, selectors, text, run_text, shown,
                   have_audio, audio_len, run_calls, clicks, completed,
                   voiceVars, rateVars>>

\* if generate: is false, the script ends                       (line 213)
ScriptEnd ==
    /\ pc = "handler"
    /\ ~generate
    /\ pc' = "idle"
    /\ UNCHANGED <<session_state, request, button, trigger, cache, selectors, generate,
                   text, run_text, shown, have_audio, audio_len, run_calls, clicks,
                   completed, voiceVars, rateVars>>

\* st.warning(...); st.stop()                                    (lines 214-216)
EmptyTextAbort ==
    /\ pc = "handler"
    /\ generate
    /\ IsBlank(run_text)
    /\ shown' = shown \cup {"warning"}
    /\ pc' = "idle"
    /\ UNCHANGED <<session_state, request, button, trigger, cache, selectors, generate,
                   text, run_text, have_audio, audio_len, run_calls, clicks,
                   completed, voiceVars, rateVars>>

\* busy = True and the call of the synthesis service             (lines 218-230)
BeginSynthesis ==
    /\ pc = "handler"
    /\ generate
    /\ ~IsBlank(run_text)
    /\ session_state' = SetBusy(session_state)
    /\ run_calls' = run_calls + 1
    /\ pc' = "synth"
    /\ UNCHANGED <<request, button, trigger, cache, selectors, generate, text, run_text,
                   shown, have_audio, audio_len, clicks, completed,
                   voiceVars, rateVars>>

\* The service answered and out.mp3 holds n bytes: size test, then either
\* st.error + st.stop or the success elements; the finally block (232-247)
SynthesisReturns(n) ==
    /\ pc = "synth"
    /\ have_audio' = TRUE
    /\ audio_len' = n
    /\ shown' = IF TooShort(n)
                THEN shown \cup {"error"}
                ELSE shown \cup {"success", "audio", "download"}
    /\ session_state' = FinallyClear(session_state)
    /\ completed' = completed + 1
    /\ pc' = "idle"
    /\ UNCHANGED <<request, button, trigger, cache, selectors, generate, text, run_text,
                   run_calls, clicks, voiceVars, rateVars>>

\* The synthesis call raises: the finally block runs and the exception
\* reaches Streamlit, which displays it                         (230, 246-247)
SynthesisRaises ==
    /\ pc = "synth"
    /\ shown' = shown \cup {"exception"}
    /\ session_state' = FinallyClear(session_state)
    /\ completed' = completed + 1
    /\ pc' = "idle"
    /\ UNCHANGED <<request, button, trigger, cache, selectors, generate, text, run_text,
                   have_audio, audio_len, run_calls, clicks, voiceVars, rateVars>>

Next ==
    \/ Click
    \/ \E t \in Texts : EditText(t)
    \/ ChangeSelection
    \/ StartRun
    \/ CacheExpires
    \/ CatalogFetchFails
    \/ \E c \in SessionCatalogs : CatalogFetched(c)
    \/ EmptyCatalogFails
    \/ Render
    \/ ScriptEnd
    \/ EmptyTextAbort
    \/ BeginSynthesis
    \/ \E n \in AudioSizes : SynthesisReturns(n)
    \/ SynthesisRaises

Spec == Init /\ [][Next]_vars

-----------------------------------------------------------------------------
\* Properties of the session (Spec)

\* C1: a generate handler that set busy leaves it false when the run ends,
\* on every exit path (success, exception, too-short abort): no state in
\* which the script has ended has busy = true.
C1_BusyClearedWhenRunEnds ==
    pc = "idle" => ~Busy

\* a run that took the too-short abort has ended with busy false
C1_Witness ==
    /\ pc = "idle" /\ completed >= 1 /\ run_calls = 1
    /\ have_audio /\ audio_len < 2000 /\ "error" \in shown
    /\ "busy" \in DOMAIN session_state /\ ~session_state["busy"]

\* C2: a Generate request that arrives while a synthesis is in flight (busy
\* true) is refused at the button: it is never accepted and left queued
\* behind the running synthesis.
C2_NoRequestAcceptedWhileBusy ==
    ~(pc = "synth" /\ Busy /\ request = "click")

\* C3: a Generate action whose text is blank after trimming ends with the
\* warning, makes no outbound synthesis call and never sets busy.
C3_BlankTextAborts ==
    (generate /\ \A i \in 1..Len(run_text) : run_text[i] \in Whitespace)
        => /\ run_calls = 0
           /\ ~Busy
           /\ pc # "synth"
           /\ shown \subseteq {"warning"}
           /\ (pc = "idle" => shown = {"warning"})

\* a whitespace-only text (a space and a carriage return) was submitted and
\* the run has ended with the warning
C3_Witness ==
    /\ pc = "idle" /\ generate /\ run_text = <<" ", "\r">>
    /\ \A i \in 1..Len(run_text) : run_text[i] \in Whitespace
    /\ shown = {"warning"} /\ run_calls = 0

\* C4: after a completed synthesis call, audio shorter than 2000 bytes ends
\* the action with the error alone (no success, playback or download);
\* success, playback and download appear only with audio of >= 2000 bytes.
C4_SizeValidation ==
    /\ (have_audio /\ audio_len < 2000) => shown = {"error"}
    /\ (shown \cap {"success", "audio", "download"} # {})
          => (have_audio /\ audio_len >= 2000)

\* a synthesis returned 1999 bytes and the run ended with the error
C4_Witness ==
    /\ pc = "idle" /\ have_audio /\ audio_len = 1999 /\ shown = {"error"}

\* C10: whenever the Generate button is rendered busy is false, so the
\* button is never rendered disabled; busy is true only while the handler
\* is between its assignment and its finally block.
C10_ButtonNeverDisabled ==
    /\ button # "disabled"
    /\ Busy => pc = "synth"

\* the button is rendered again, enabled, after an earlier generation
C10_Witness ==
    /\ pc = "handler" /\ completed >= 1 /\ button = "enabled"

-----------------------------------------------------------------------------
\* Properties of the voice pipeline (SpecVoices), stated without the
\* operators of the model: by quantifiers over positions and characters.

Str_NEURAL == <<"N","E","U","R","A","L">>

\* g equals "female" case-insensitively
IsFemaleCI(g) ==
    /\ Len(g) = Len(Str_female)
    /\ \A i \in 1..Len(g) : g[i] \in {Str_female[i], Str_FEMALE[i]}

\* the lowercase form of k contains sub (sub in lowercase letters)
ContainsCI(k, sub) ==
    \E p \in 1..(Len(k) - Len(sub) + 1) :
        \A q \in 1..Len(sub) :
            \/ k[p + q - 1] = sub[q]
            \/ \E n \in 1..Len(LowerChars) :
                   LowerChars[n] = sub[q] /\ UpperChars[n] = k[p + q - 1]

\* seg ends with "Neural", compared exactly / ignoring case
EndsNeuralExact(seg) ==
    /\ Len(seg) >= 6
    /\ \A q \in 1..6 : seg[Len(seg) - 6 + q] = Str_Neural[q]
EndsNeuralCI(seg) ==
    /\ Len(seg) >= 6
    /\ \A q \in 1..6 : seg[Len(seg) - 6 + q] \in {Str_neural[q], Str_NEURAL[q]}

\* label is "{display} - {locale} - {gender}" for v, display being the part
\* of ShortName after its last "-", with the suffix rewritten iff `strip`
LabelOf(label, v, strip) ==
    \E k \in 0..Len(v.ShortName) :
        LET sn  == v.ShortName
            seg == SubSeq(sn, k + 1, Len(sn))
            display == IF strip
                       THEN SubSeq(seg, 1, Len(seg) - 6) \o Str_ParenNeural
                       ELSE seg
        IN  /\ \A i \in 1..Len(seg) : seg[i] # "-"
            /\ (k = 0 \/ sn[k] = "-")
            /\ label = display \o <<" ", EmDash, " ">> \o v.Locale
                                \o <<" ", EmDash, " ">> \o v.Gender

SegmentOf(v) ==
    LET sn == v.ShortName
        k  == CHOOSE k \in 0..Len(sn) :
                 /\ \A i \in (k + 1)..Len(sn) : sn[i] # "-"
                 /\ (k = 0 \/ sn[k] = "-")
    IN  SubSeq(sn, k + 1, Len(sn))

Label_Jenny ==
    <<"J","e","n","n","y"," ","(","N","e","u","r","a","l",")",
      " ", EmDash, " ", "e","n","-","U","S", " ", EmDash, " ",
      "F","e","m","a","l","e">>
Label_Anna ==
    <<"A","n","n","a"," ","(","N","e","u","r","a","l",")",
      " ", EmDash, " ", "e","n","-","U","S", " ", EmDash, " ",
      "f","e","m","a","l","e">>

\* C5: filter_voice_list never returns an empty list for a non-empty
\* catalog, whatever the preferred locale (None, a locale no voice has) and
\* prefer_female.
C5_FilterNeverEmpty ==
    (vstage \in {"filtered", "mapped", "selected"} /\ voices # <<>>)
        => filtered # <<>>

\* the last fallback acted: no voice has the preferred locale and the whole
\* catalog came back
C5_Witness ==
    /\ vstage = "filtered" /\ prefer_lang = Str_deDE /\ prefer_female
    /\ Len(voices) >= 2 /\ filtered = voices

\* C6: when some voice has the preferred locale and a gender equal to
\* "female" ignoring case, filter_voice_list(catalog, locale, True) returns
\* exactly those voices, in catalog order.
C6_FilterExactMatches ==
    (/\ vstage \in {"filtered", "mapped", "selected"}
     /\ prefer_female
     /\ prefer_lang # None
     /\ \E i \in 1..Len(voices) :
            voices[i].Locale = prefer_lang /\ IsFemaleCI(voices[i].Gender))
        => filtered = SelectSeq(voices,
                          LAMBDA v : v.Locale = prefer_lang /\ IsFemaleCI(v.Gender))

\* en-US female voices, one of them spelled "female", were kept and another
\* voice of the catalog was dropped
C6_Witness ==
    /\ vstage = "filtered" /\ prefer_female /\ prefer_lang = Str_enUS
    /\ Len(filtered) = 2 /\ Len(voices) = 3
    /\ \E i \in 1..Len(filtered) : filtered[i].Gender = Str_female
    /\ \A i \in 1..Len(filtered) :
          filtered[i].Locale = Str_enUS /\ IsFemaleCI(filtered[i].Gender)

\* C8: over a non-empty voice_map the default label is the first key whose
\* lowercase form contains "jenny", else the first containing "aria", else
\* the first key; it is always a key of the map.
C8_DefaultLabel ==
    (vstage = "selected" /\ voice_map # <<>>)
        => LET n  == Len(voice_map)
               key(i) == voice_map[i][1]
               J  == { i \in 1..n : ContainsCI(key(i), Str_jenny) }
               A  == { i \in 1..n : ContainsCI(key(i), Str_aria) }
               first(S) == CHOOSE i \in S : \A j \in S : i <= j
           IN  /\ \E i \in 1..n : default_label = key(i)
               /\ default_label =
                     IF J # {} THEN key(first(J))
                     ELSE IF A # {} THEN key(first(A))
                     ELSE key(1)

\* a key containing "aria" comes first and the default is a later key
\* containing "jenny"
C8_Witness ==
    /\ vstage = "selected" /\ Len(voice_map) >= 2
    /\ ContainsCI(voice_map[1][1], Str_aria)
    /\ ~ContainsCI(voice_map[1][1], Str_jenny)
    /\ default_label # voice_map[1][1]
    /\ ContainsCI(default_label, Str_jenny)

\* C9 as stated: the label is "{displayName} - {locale} - {gender}" and the
\* suffix is rewritten to " (Neural)" iff the segment after the last "-"
\* ends with "Neural" spelled exactly so.
C9_LabelCaseSensitive ==
    vstage \in {"mapped", "selected"}
        => \A i \in 1..Len(voice_map) :
              LabelOf(voice_map[i][1], voice_map[i][2],
                      EndsNeuralExact(SegmentOf(voice_map[i][2])))

\* C9 amended: the suffix is rewritten iff the segment ends with "neural"
\* ignoring case; "en-US-JennyNeural" yields "Jenny (Neural) - en-US - Female".
C9_LabelCaseInsensitive ==
    vstage \in {"mapped", "selected"}
        => \A i \in 1..Len(voice_map) :
              /\ LabelOf(voice_map[i][1], voice_map[i][2],
                         EndsNeuralCI(SegmentOf(voice_map[i][2])))
              /\ voice_map[i][2] = V_Jenny => voice_map[i][1] = Label_Jenny

\* a ShortName ending in lowercase "neural" was labelled "Anna (Neural) ..."
C9_Witness ==
    /\ vstage = "mapped"
    /\ \E i \in 1..Len(voice_map) :
          /\ voice_map[i][2].ShortName = V_Anna.ShortName
          /\ voice_map[i][1] = Label_Anna
    /\ \E i \in 1..Len(voice_map) :
          voice_map[i][2] = V_Jenny /\ voice_map[i][1] = Label_Jenny

-----------------------------------------------------------------------------
\* Property of the rate mapper (SpecRate)

RECURSIVE ParseNat(_)
ParseNat(ds) ==
    IF ds = <<>> THEN 0
    ELSE 10 * ParseNat(SubSeq(ds, 1, Len(ds) - 1))
           + (CHOOSE d \in 0..9 : DigitChars[d + 1] = ds[Len(ds)])

\* C7: for every integer s in [100,250] pct_to_edge_rate(s) is a sign, the
\* decimal digits of |v| and "%", v being the integer nearest to
\* ((s-175)/75)*50, within [-50,50]; 175 -> "+0%", 100 -> "-50%",
\* 250 -> "+50%", 180 -> "+3%".
C7_RateString ==
    (rstage = "mapped" /\ rate_slider \in 100..250)
        => LET n   == Len(rate_str)
               ds  == SubSeq(rate_str, 2, n - 1)
               mag == ParseNat(ds)
               v   == IF rate_str[1] = "-" THEN -mag ELSE mag
               err == 3 * v - 2 * (rate_slider - 175)
           IN  /\ n >= 3
               /\ rate_str[1] \in {"+", "-"}
               /\ rate_str[n] = "%"
               /\ \A i \in 1..Len(ds) : \E d \in 0..9 : DigitChars[d + 1] = ds[i]
               /\ (Len(ds) > 1 => ds[1] # "0")
               /\ (rate_str[1] = "-" => mag > 0)
               /\ v >= -50 /\ v <= 50
               /\ err >= -1 /\ err <= 1
               /\ (rate_slider = 175 => rate_str = <<"+", "0", "%">>)
               /\ (rate_slider = 100 => rate_str = <<"-", "5", "0", "%">>)
               /\ (rate_slider = 250 => rate_str = <<"+", "5", "0", "%">>)
               /\ (rate_slider = 180 => rate_str = <<"+", "3", "%">>)

\* the default slider value 180 was mapped to "+3%"
C7_Witness ==
    /\ rstage = "mapped" /\ rate_slider = 180 /\ rate_str = <<"+", "3", "%">>

====
